---- MODULE Spec2Model ----
(***************************************************************************)
(* Model of the bioxai utilities: file discovery (files_finder.py), the    *)
(* FindFilesResult record (data_model.py) and the parallel decompression   *)
(* batch (unzip_files.py).                                                 *)
(*                                                                         *)
(* Python strings are sequences of one-character strings, so that the     *)
(* string operations (suffix, startswith, fnmatch, re.search, int) are     *)
(* computed character by character.  An optional value is the empty set    *)
(* (None) or a singleton.                                                  *)
(***************************************************************************)
EXTENDS Integers, Sequences, FiniteSets, TLC

VARIABLES
    \* ---- find_files (files_finder.py) ----
    alive,        \* the paths that exist in the file system right now
    args,         \* the arguments of the find_files call
    pc,           \* position of the find_files call
    candidates,   \* local: the enumerated regular files
    filtered,     \* local: the filtered, resolved (then sorted, truncated) list
    sortKeys,     \* the keys sort_key returned, one per entry of the sorted list
    fsTouched,    \* file-system operations the call has performed so far
    unlinks,      \* how many files another process has removed
    result,       \* the FindFilesResult returned (None until then)
    \* ---- _extract_year_from_filename ----
    yname,        \* the file name given
    ypc,          \* "in" before the call, "out" after
    yresult,      \* the value returned
    \* ---- FindFilesResult / sort_files_by_year ----
    rfiles,       \* FindFilesResult.files
    rdb,          \* FindFilesResult.db_file_paths
    rpc,          \* last operation on the record
    rsort,        \* the sort_by of the last grouping
    redits,       \* how many times files was reassigned
    \* ---- unzip_xml_gz_files (unzip_files.py) ----
    uinput,       \* source_directory, destination_directory, overwrite
    upc,          \* position of the unzip_xml_gz_files call
    file_paths,   \* the normalized work items
    destination_path, \* local: the directory reported
    task,         \* per work item: position of its unzip_file call
    dest,         \* the file system: content of each destination path
    dirs,         \* directories created by the call
    opened,       \* work items whose source was opened in this run
    wrote,        \* work items that created or truncated their destination
    extracted_files, \* results collected from the pool
    returned,     \* the pair returned, None until then
    run,          \* number of the batch run
    destAtStart,  \* the destinations when this run started
    prevFull      \* whether the previous run extracted every item

findVars == <<alive, args, pc, candidates, filtered, sortKeys, fsTouched, unlinks, result>>
yearVars == <<yname, ypc, yresult>>
groupVars == <<rfiles, rdb, rpc, rsort, redits>>
unzipVars == <<uinput, upc, file_paths, destination_path, task, dest, dirs, opened, wrote,
               extracted_files, returned, run, destAtStart, prevFull>>
vars == <<findVars, yearVars, groupVars, unzipVars>>

----------------------------------------------------------------------------
(* Optional values and strings *)

None == {}
Some(x) == {x}
Val(o) == CHOOSE x \in o : TRUE

\* The characters used, in code-point order.
Alphabet == <<".", "0", "1", "2", "3", "4", "5", "6", "7", "8", "9", "T", "X", "_",
              "a", "b", "c", "d", "e", "g", "l", "m", "n", "o", "p", "r",
              "s", "t", "u", "v", "x", "z">>

Ord(c) == CHOOSE i \in 1..Len(Alphabet) : Alphabet[i] = c

\* str.lower() on one character
LowerChar(c) == IF c = "T" THEN "t" ELSE IF c = "X" THEN "x" ELSE c

Lower(s) == [i \in 1..Len(s) |-> LowerChar(s[i])]

StartsWith(s, pre) ==
    Len(pre) <= Len(s) /\ SubSeq(s, 1, Len(pre)) = pre

EndsWith(s, suf) ==
    Len(suf) <= Len(s) /\ SubSeq(s, Len(s) - Len(suf) + 1, Len(s)) = suf

\* str.rfind("."), 1-based; 0 when there is none
RFindDot(s) ==
    LET hits == {i \in 1..Len(s) : s[i] = "."}
    IN  IF hits = {} THEN 0 ELSE CHOOSE i \in hits : \A j \in hits : j <= i

\* pathlib: PurePath.suffix and PurePath.stem of a final component
PathSuffix(name) ==
    LET i == RFindDot(name)
    IN  IF 1 < i /\ i < Len(name) THEN SubSeq(name, i, Len(name)) ELSE <<>>

PathStem(name) ==
    LET i == RFindDot(name)
    IN  IF 1 < i /\ i < Len(name) THEN SubSeq(name, 1, i - 1) ELSE name

\* str.removesuffix
RemoveSuffix(s, suf) ==
    IF suf # <<>> /\ EndsWith(s, suf) THEN SubSeq(s, 1, Len(s) - Len(suf)) ELSE s

\* str < str
RECURSIVE StrLess(_, _)
StrLess(a, b) ==
    IF b = <<>> THEN FALSE
    ELSE IF a = <<>> THEN TRUE
    ELSE IF Head(a) = Head(b) THEN StrLess(Tail(a), Tail(b))
    ELSE Ord(Head(a)) < Ord(Head(b))

\* fnmatch.fnmatch on POSIX (case-sensitive), for patterns of literals, * and ?
RECURSIVE fnmatch(_, _)
fnmatch(name, pat) ==
    IF pat = <<>> THEN name = <<>>
    ELSE IF Head(pat) = "*"
         THEN fnmatch(name, Tail(pat)) \/ (name # <<>> /\ fnmatch(Tail(name), pat))
         ELSE /\ name # <<>>
              /\ (Head(pat) = "?" \/ Head(pat) = Head(name))
              /\ fnmatch(Tail(name), Tail(pat))

----------------------------------------------------------------------------
(* The file system find_files runs on *)

Path(dir, name) == [dir |-> dir, name |-> name]

RootDir == <<"root">>
SubDir == <<"root", "sub">>
RootFile == <<"rootfile">>
NoDir == <<"nodir">>

FA == Path(RootDir, <<"a", ".", "t", "x", "t">>)
FB == Path(RootDir, <<"b", ".", "T", "X", "T">>)
FL == Path(RootDir, <<"l", ".", "t", "x", "t">>)
FC == Path(SubDir, <<"c", ".", "c", "s", "v">>)
FSub == Path(RootDir, <<"s", "u", "b">>)

FsPaths == {FA, FB, FL, FC, FSub}

\* Files named after years, for the grouping by year
DataDir == <<"data">>
G1998s == Path(DataDir, <<"p", "u", "b", "m", "e", "d", "_", "s", "o", "r", "t", "e", "d",
                         "_", "1", "9", "9", "8", "_", "2", "0", "2", "0">>)
G2020 == Path(DataDir, <<"p", "u", "b", "m", "e", "d", "_", "2", "0", "2", "0">>)
G1998 == Path(DataDir, <<"n", "1", "9", "9", "8">>)
GNone == Path(DataDir, <<"p", "u", "b", "m", "e", "d", "_", "1", "5", "0", "0">>)

GroupPaths == {G1998s, G2020, G1998, GNone}

Kind(p) == IF p = FL THEN "link" ELSE IF p = FSub THEN "dir" ELSE "file"
Target(p) == IF p = FL THEN FC ELSE p
Size(p) ==
    IF p = FA THEN 50 ELSE IF p = FB THEN 150 ELSE IF p = G1998s THEN 10
    ELSE IF p = G1998 THEN 20 ELSE 200
MTime(p) ==
    IF p = FA THEN 3 ELSE IF p = FB THEN 1 ELSE IF p = G1998s THEN 5
    ELSE IF p = G1998 THEN 4 ELSE 2

\* Path.exists / Path.is_dir of the search root
RootExists(d) == d \in {RootDir, RootFile}
RootIsDir(d) == d = RootDir

\* os.stat (follows symbolic links): the set is empty when it raises OSError
Stat(fs, p) ==
    IF p \in fs /\ Target(p) \in fs
    THEN Some([size |-> Size(Target(p)), mtime |-> MTime(Target(p)),
               kind |-> Kind(Target(p))])
    ELSE None

is_file(fs, p) == Stat(fs, p) # None /\ Val(Stat(fs, p)).kind = "file"

\* Path.resolve(): a symbolic link is replaced by what it points to
Resolve(fs, p) == IF p \in fs /\ Kind(p) = "link" THEN Target(p) ELSE p

\* base.glob("*") / base.glob("**/*"): the entries below base
Glob(fs, base, recursive) ==
    {p \in fs : p.dir = base \/ (recursive /\ StartsWith(p.dir, base))}

----------------------------------------------------------------------------
(* files_finder.py: the predicates *)

_ext_ok(p, file_format) ==
    IF file_format = None THEN TRUE
    ELSE Lower(PathSuffix(p.name)) = <<".">> \o Lower(Val(file_format))

_prefix_suffix_ok(p, prefix, suffix) ==
    LET name == p.name
        stem == PathStem(p.name)
        base_no_ext == RemoveSuffix(name, PathSuffix(name))
    IN  IF prefix # None /\ ~StartsWith(name, Val(prefix)) THEN FALSE
        ELSE IF suffix = None THEN TRUE
        ELSE EndsWith(stem, Val(suffix)) \/ EndsWith(base_no_ext, Val(suffix))

\* a pattern list is truthy when it is neither None nor empty
Truthy(pats) == pats # None /\ Val(pats) # <<>>

AnyMatch(name, pats) == \E i \in 1..Len(pats) : fnmatch(name, pats[i])

_patterns_ok(name, include_patterns, exclude_patterns) ==
    IF Truthy(include_patterns) /\ ~AnyMatch(name, Val(include_patterns)) THEN FALSE
    ELSE IF Truthy(exclude_patterns) /\ AnyMatch(name, Val(exclude_patterns)) THEN FALSE
    ELSE TRUE

_size_ok(fs, p, min_size_bytes) ==
    IF min_size_bytes = None THEN TRUE
    ELSE IF Stat(fs, p) = None THEN FALSE
    ELSE Val(Stat(fs, p)).size >= Val(min_size_bytes)

_file_passes(fs, p, a) ==
    /\ _ext_ok(p, a.file_format)
    /\ _prefix_suffix_ok(p, a.prefix, a.suffix)
    /\ _patterns_ok(p.name, a.include_patterns, a.exclude_patterns)
    /\ _size_ok(fs, p, a.min_size_bytes)

\* whether _file_passes gets as far as the stat() of _size_ok (and short-circuits)
ReachesStat(p, a) ==
    /\ a.min_size_bytes # None
    /\ _ext_ok(p, a.file_format)
    /\ _prefix_suffix_ok(p, a.prefix, a.suffix)
    /\ _patterns_ok(p.name, a.include_patterns, a.exclude_patterns)

----------------------------------------------------------------------------
(* files_finder.py: the year of a file name *)

MinYear == 1900
MaxYear == 2099

Digits == <<"0", "1", "2", "3", "4", "5", "6", "7", "8", "9">>
IsDigit(c) == \E i \in 1..10 : Digits[i] = c
DigitVal(c) == (CHOOSE i \in 1..10 : Digits[i] = c) - 1

\* int() of a string of digits
RECURSIVE ParseInt(_)
ParseInt(s) ==
    IF s = <<>> THEN 0
    ELSE 10 * ParseInt(SubSeq(s, 1, Len(s) - 1)) + DigitVal(s[Len(s)])

PubmedSorted == <<"p", "u", "b", "m", "e", "d", "_", "s", "o", "r", "t", "e", "d", "_">>
Pubmed == <<"p", "u", "b", "m", "e", "d", "_">>

\* The three regular expressions, in the order of the loop: a literal, then the
\* group "year" of four digits, which for the last one starts with 19 or 20.
YearPatterns ==
    << [lit |-> PubmedSorted, century |-> {}],
       [lit |-> Pubmed, century |-> {}],
       [lit |-> <<>>, century |-> {<<"1", "9">>, <<"2", "0">>}] >>

\* the pattern matches name at position i
MatchAt(pat, name, i) ==
    LET g == i + Len(pat.lit)
    IN  /\ g + 3 <= Len(name)
        /\ SubSeq(name, i, g - 1) = pat.lit
        /\ \A k \in g..(g + 3) : IsDigit(name[k])
        /\ (pat.century = {} \/ SubSeq(name, g, g + 1) \in pat.century)

\* re.search(pat, name): the group "year" of the leftmost match, or None
re_search(pat, name) ==
    LET hits == {i \in 1..Len(name) : MatchAt(pat, name, i)}
    IN  IF hits = {} THEN None
        ELSE LET i == CHOOSE h \in hits : \A j \in hits : h <= j
             IN  Some(SubSeq(name, i + Len(pat.lit), i + Len(pat.lit) + 3))

InYearRange(y) == MinYear <= y /\ y <= MaxYear

\* Variant: a pattern that matches with a number out of range ends the search.
RECURSIVE ExtractFromStop(_, _)
ExtractFromStop(name, k) ==
    IF k > Len(YearPatterns) THEN None
    ELSE LET m == re_search(YearPatterns[k], name)
         IN  IF m # None
             THEN (IF InYearRange(ParseInt(Val(m))) THEN Some(ParseInt(Val(m))) ELSE None)
             ELSE ExtractFromStop(name, k + 1)

\* the for loop of _extract_year_from_filename, from pattern k on
RECURSIVE ExtractFrom(_, _)
ExtractFrom(name, k) ==
    IF k > Len(YearPatterns) THEN None
    ELSE LET m == re_search(YearPatterns[k], name)
         IN  IF m # None /\ InYearRange(ParseInt(Val(m)))
             THEN Some(ParseInt(Val(m)))
             ELSE ExtractFrom(name, k + 1)

_extract_year_from_filename(name) == ExtractFrom(name, 1)

----------------------------------------------------------------------------
(* files_finder.py: sorting *)

SortModes == {"name", "mtime", "size"}

StrKey(s) == [t |-> "str", s |-> s, n |-> 0]
NumKey(n) == [t |-> "num", s |-> <<>>, n |-> n]
InfKey == [t |-> "inf", s |-> <<>>, n |-> 0]

\* the key function _build_sort_key returns, applied to p
sort_key(fs, sort_by, p) ==
    IF sort_by = "name" THEN StrKey(p.name)
    ELSE IF Stat(fs, p) = None THEN InfKey
    ELSE IF sort_by = "mtime" THEN NumKey(Val(Stat(fs, p)).mtime)
    ELSE NumKey(Val(Stat(fs, p)).size)

\* Python's < on two keys
KeyLess(a, b) ==
    IF a.t = "str" /\ b.t = "str" THEN StrLess(a.s, b.s)
    ELSE IF a.t = "inf" THEN FALSE
    ELSE IF b.t = "inf" THEN TRUE
    ELSE a.n < b.n

\* x goes before e in the sorted list
Before(kx, ke, reverse) == IF reverse THEN KeyLess(ke, kx) ELSE KeyLess(kx, ke)

InsertPos(acc, x, keys, reverse) ==
    LET hits == {j \in 1..Len(acc) : Before(keys[x], keys[acc[j]], reverse)}
    IN  IF hits = {} THEN Len(acc) + 1
        ELSE CHOOSE h \in hits : \A j \in hits : h <= j

\* list.sort(key=..., reverse=...): the stable order of the indices 1..n
RECURSIVE SortIdx(_, _, _)
SortIdx(n, keys, reverse) ==
    IF n = 0 THEN <<>>
    ELSE LET acc == SortIdx(n - 1, keys, reverse)
             pos == InsertPos(acc, n, keys, reverse)
         IN  SubSeq(acc, 1, pos - 1) \o <<n>> \o SubSeq(acc, pos, Len(acc))

KeysOf(fs, sort_by, seq) == [i \in 1..Len(seq) |-> sort_key(fs, sort_by, seq[i])]

Permute(seq, idx) == [i \in 1..Len(seq) |-> seq[idx[i]]]

SortPaths(fs, seq, sort_by, reverse) ==
    Permute(seq, SortIdx(Len(seq), KeysOf(fs, sort_by, seq), reverse))

----------------------------------------------------------------------------
(* files_finder.py: sort_files_by_year *)

\* buckets[y].append(p) on an insertion-ordered dict
BucketAppend(b, y, p) ==
    IF \E i \in 1..Len(b) : b[i].year = y
    THEN [i \in 1..Len(b) |->
            IF b[i].year = y
            THEN [year |-> y, files |-> Append(b[i].files, p)]
            ELSE b[i]]
    ELSE Append(b, [year |-> y, files |-> <<p>>])

\* Variant: a file without a year is kept, in a bucket of its own.
RECURSIVE BuildBucketsSentinel(_, _)
BuildBucketsSentinel(files, n) ==
    IF n = 0 THEN <<>>
    ELSE LET b == BuildBucketsSentinel(files, n - 1)
             y == _extract_year_from_filename(files[n].name)
         IN  BucketAppend(b, IF y # None THEN Val(y) ELSE 0, files[n])

RECURSIVE BuildBuckets(_, _)
BuildBuckets(files, n) ==
    IF n = 0 THEN <<>>
    ELSE LET b == BuildBuckets(files, n - 1)
             y == _extract_year_from_filename(files[n].name)
         IN  IF y # None THEN BucketAppend(b, Val(y), files[n]) ELSE b

\* The dict returned, as the sequence of its items; sort_by is a valid mode.
sort_files_by_year(fs, files, sort_by) ==
    LET buckets == BuildBuckets(files, Len(files))
        inner == [i \in 1..Len(buckets) |->
                    [year |-> buckets[i].year,
                     files |-> SortPaths(fs, buckets[i].files, sort_by, FALSE)]]
        keys == [i \in 1..Len(inner) |-> NumKey(inner[i].year)]
    IN  Permute(inner, SortIdx(Len(inner), keys, FALSE))

----------------------------------------------------------------------------
(* files_finder.py: find_files, step by step, while another process may
   remove files *)

MaxUnlink == 1

NoFilter ==
    [prefix |-> None, suffix |-> None, file_format |-> None,
     include_patterns |-> None, exclude_patterns |-> None, min_size_bytes |-> None]

\* the filter arguments tried: each filter alone, and two together
FilterChoices ==
    { NoFilter,
      [NoFilter EXCEPT !.file_format = Some(<<"t", "x", "t">>)],
      [NoFilter EXCEPT !.prefix = Some(<<"a">>)],
      [NoFilter EXCEPT !.suffix = Some(<<"b">>)],
      [NoFilter EXCEPT !.include_patterns = Some(<< <<"*", ".", "t", "x", "t">> >>)],
      [NoFilter EXCEPT !.exclude_patterns = Some(<< <<"?", ".", "t", "*">> >>)],
      [NoFilter EXCEPT !.min_size_bytes = Some(100)],
      [NoFilter EXCEPT !.file_format = Some(<<"t", "x", "t">>),
                       !.min_size_bytes = Some(100)] }

MaxFilesChoices == {None, Some(-1), Some(0), Some(2)}

\* every filter without a cap, and every cap without a filter
FilterCaps ==
    {c \in MaxFilesChoices \X FilterChoices : c[1] = None \/ c[2] = NoFilter}

FindArgs ==
    { [dir |-> d, recursive |-> r, sort_by |-> s, reverse |-> v, max_files |-> c[1],
       prefix |-> c[2].prefix, suffix |-> c[2].suffix,
       file_format |-> c[2].file_format,
       include_patterns |-> c[2].include_patterns,
       exclude_patterns |-> c[2].exclude_patterns,
       min_size_bytes |-> c[2].min_size_bytes] :
         d \in {RootDir, RootFile, NoDir}, r \in BOOLEAN,
         s \in SortModes \cup {"bogus"}, v \in BOOLEAN, c \in FilterCaps }

\* the orders in which a directory listing may yield the set S
Orders(S) ==
    {o \in [1..Cardinality(S) -> S] : \A i, j \in 1..Cardinality(S) : o[i] = o[j] => i = j}

FindErrors == {"FileNotFoundError", "NotADirectoryError", "ValueError"}

FindFrame == UNCHANGED <<yearVars, groupVars, unzipVars>>

InitFind ==
    /\ alive = FsPaths
    /\ args \in FindArgs
    /\ pc = "start"
    /\ candidates = <<>>
    /\ filtered = <<>>
    /\ sortKeys = <<>>
    /\ fsTouched = {}
    /\ unlinks = 0
    /\ result = None

\* Variant: only the existence of the root is tested; a root that is a regular
\* file is listed like a directory.
CheckRootExistsOnly ==
    /\ pc = "start"
    /\ pc' = IF ~RootExists(args.dir) THEN "FileNotFoundError" ELSE "enum"
    /\ fsTouched' = fsTouched \cup {"exists"}
    /\ UNCHANGED <<alive, args, candidates, filtered, sortKeys, unlinks, result>>
    /\ FindFrame

\* lines 157-164
CheckRoot ==
    /\ pc = "start"
    /\ pc' = IF ~RootExists(args.dir) THEN "FileNotFoundError"
             ELSE IF ~RootIsDir(args.dir) THEN "NotADirectoryError"
             ELSE "enum"
    /\ fsTouched' = fsTouched \cup {"exists"}
    /\ UNCHANGED <<alive, args, candidates, filtered, sortKeys, unlinks, result>>
    /\ FindFrame

\* lines 166-167
Enumerate ==
    /\ pc = "enum"
    /\ LET listed == Glob(alive, args.dir, args.recursive)
       IN  /\ \E o \in Orders({p \in listed : is_file(alive, p)}) : candidates' = o
           /\ fsTouched' = fsTouched \cup {"glob"}
                             \cup (IF listed = {} THEN {} ELSE {"is_file"})
    /\ pc' = "filter"
    /\ UNCHANGED <<alive, args, filtered, sortKeys, unlinks, result>>
    /\ FindFrame

\* lines 169-181
Filter ==
    /\ pc = "filter"
    /\ LET passing == SelectSeq(candidates, LAMBDA p : _file_passes(alive, p, args))
       IN  filtered' = [i \in 1..Len(passing) |-> Resolve(alive, passing[i])]
    /\ fsTouched' = fsTouched
         \cup (IF \E i \in 1..Len(candidates) : ReachesStat(candidates[i], args)
               THEN {"stat"} ELSE {})
    /\ pc' = "validate"
    /\ UNCHANGED <<alive, args, candidates, sortKeys, unlinks, result>>
    /\ FindFrame

\* line 184
_validate_sort_by ==
    /\ pc = "validate"
    /\ pc' = IF args.sort_by \notin SortModes THEN "ValueError" ELSE "sort"
    /\ UNCHANGED <<alive, args, candidates, filtered, sortKeys, fsTouched, unlinks, result>>
    /\ FindFrame

\* line 185
Sort ==
    /\ pc = "sort"
    /\ LET keys == KeysOf(alive, args.sort_by, filtered)
           idx == SortIdx(Len(filtered), keys, args.reverse)
       IN  /\ filtered' = Permute(filtered, idx)
           /\ sortKeys' = Permute(keys, idx)
    /\ fsTouched' = fsTouched
         \cup (IF args.sort_by # "name" /\ filtered # <<>> THEN {"stat"} ELSE {})
    /\ pc' = "truncate"
    /\ UNCHANGED <<alive, args, candidates, unlinks, result>>
    /\ FindFrame

\* Variant: any max_files that is set is used as the slice bound, so that a
\* negative one counts from the end of the list.
TruncatedSlice(seq, max_files) ==
    IF max_files = None THEN seq
    ELSE IF Val(max_files) >= 0
         THEN SubSeq(seq, 1, IF Val(max_files) < Len(seq) THEN Val(max_files) ELSE Len(seq))
         ELSE SubSeq(seq, 1, IF Len(seq) + Val(max_files) > 0
                             THEN Len(seq) + Val(max_files) ELSE 0)

\* lines 187-188: filtered[:max_files] when max_files is set and not negative
Truncated(seq, max_files) ==
    IF max_files # None /\ Val(max_files) >= 0
    THEN SubSeq(seq, 1, IF Val(max_files) < Len(seq) THEN Val(max_files) ELSE Len(seq))
    ELSE seq

\* lines 187-188
Truncate ==
    /\ pc = "truncate"
    /\ filtered' = Truncated(filtered, args.max_files)
    /\ sortKeys' = Truncated(sortKeys, args.max_files)
    /\ pc' = "construct"
    /\ UNCHANGED <<alive, args, candidates, fsTouched, unlinks, result>>
    /\ FindFrame

\* Variant: total_matched reports the candidates that pass the filters, as
\* counted before max_files is applied.
FindFilesResultAllMatches(searched_dir, a, files, total_matched, recursive, fs) ==
    [searched_dir |-> searched_dir, args |-> a, files |-> files,
     total_matched |-> Len(SelectSeq(candidates, LAMBDA p : _file_passes(fs, p, a))),
     recursive |-> recursive, notes |-> None,
     db_file_paths |-> sort_files_by_year(fs, files, "name")]

\* FindFilesResult(...) with its __post_init__, which groups the files by year
FindFilesResult(searched_dir, a, files, total_matched, recursive, fs) ==
    [searched_dir |-> searched_dir, args |-> a, files |-> files,
     total_matched |-> total_matched, recursive |-> recursive, notes |-> None,
     db_file_paths |-> sort_files_by_year(fs, files, "name")]

\* Line 89 of data_model.py imports sort_files_by_year from vectorsage_data.utils,
\* a package outside this repository: where it is installed the import gives
\* the shared utility modelled above, elsewhere it raises ModuleNotFoundError.
ImportOutcomes == {"imported", "ModuleNotFoundError"}

\* lines 190-215
Construct ==
    /\ pc = "construct"
    /\ \E outcome \in ImportOutcomes :
         IF outcome = "imported"
         THEN /\ result' = Some(FindFilesResult(args.dir, args, filtered, Len(filtered),
                                                args.recursive, alive))
              /\ pc' = "done"
         ELSE /\ result' = None
              /\ pc' = "ModuleNotFoundError"
    /\ UNCHANGED <<alive, args, candidates, filtered, sortKeys, fsTouched, unlinks>>
    /\ FindFrame

\* another process removes a file while find_files runs
Unlink ==
    /\ pc \notin FindErrors \cup {"ModuleNotFoundError", "done"}
    /\ unlinks < MaxUnlink
    /\ \E p \in alive :
         /\ Kind(p) # "dir"
         /\ alive' = alive \ {p}
    /\ unlinks' = unlinks + 1
    /\ UNCHANGED <<args, pc, candidates, filtered, sortKeys, fsTouched, result>>
    /\ FindFrame

IdleYear == yname = <<>> /\ ypc = "idle" /\ yresult = None
IdleGroup == rfiles = <<>> /\ rdb = <<>> /\ rpc = "idle" /\ rsort = "name" /\ redits = 0
IdleUnzip ==
    /\ uinput = None /\ upc = "idle" /\ file_paths = <<>> /\ task = <<>>
    /\ destination_path = None
    /\ dest = <<>> /\ dirs = {} /\ opened = {} /\ wrote = {}
    /\ extracted_files = <<>> /\ returned = None /\ run = 0
    /\ destAtStart = <<>> /\ prevFull = FALSE

Init == InitFind /\ IdleYear /\ IdleGroup /\ IdleUnzip

Next ==
    \/ CheckRoot
    \/ Enumerate
    \/ Filter
    \/ _validate_sort_by
    \/ Sort
    \/ Truncate
    \/ Construct
    \/ Unlink

Spec == Init /\ [][Next]_vars

----------------------------------------------------------------------------
(* _extract_year_from_filename applied to file names *)

MaxParts == 4

\* the pieces file names are put together from
NameParts ==
    { PubmedSorted, Pubmed, <<"1", "9", "9", "8">>, <<"2", "0", "2", "0">>,
      <<"1", "5", "0", "0">>, <<"3">>, <<"_">> }

RECURSIVE NamesOf(_)
NamesOf(n) ==
    IF n = 0 THEN {<<>>}
    ELSE NamesOf(n - 1) \cup {s \o q : s \in NamesOf(n - 1), q \in NameParts}

IdleFind ==
    /\ alive = {} /\ args = None /\ pc = "idle" /\ candidates = <<>>
    /\ filtered = <<>> /\ sortKeys = <<>> /\ fsTouched = {} /\ unlinks = 0
    /\ result = None

InitYear ==
    /\ yname \in NamesOf(MaxParts)
    /\ ypc = "in"
    /\ yresult = None
    /\ IdleFind /\ IdleGroup /\ IdleUnzip

ExtractYear ==
    /\ ypc = "in"
    /\ yresult' = _extract_year_from_filename(yname)
    /\ ypc' = "out"
    /\ UNCHANGED <<yname, findVars, groupVars, unzipVars>>

NextYear == ExtractYear

SpecYear == InitYear /\ [][NextYear]_vars

----------------------------------------------------------------------------
(* data_model.py: a FindFilesResult, its files and its db_file_paths *)

MaxGroupFiles == 2
MaxEdits == 1

RECURSIVE SeqsUpTo(_, _)
SeqsUpTo(S, n) ==
    IF n = 0 THEN {<<>>}
    ELSE SeqsUpTo(S, n - 1) \cup {Append(q, x) : q \in SeqsUpTo(S, n - 1), x \in S}

GroupFrame == UNCHANGED <<alive, args, pc, candidates, filtered, sortKeys, fsTouched,
                          unlinks, result, yearVars, unzipVars>>

\* the record as the dataclass __init__ leaves it, before __post_init__
InitGroup ==
    /\ rfiles \in SeqsUpTo(GroupPaths, MaxGroupFiles)
    /\ rdb = <<>>
    /\ rpc = "new"
    /\ rsort = "name"
    /\ redits = 0
    /\ alive \in {GroupPaths, GroupPaths \ {G1998s}}
    /\ args = None /\ pc = "idle" /\ candidates = <<>> /\ filtered = <<>>
    /\ sortKeys = <<>> /\ fsTouched = {} /\ unlinks = 0 /\ result = None
    /\ IdleYear /\ IdleUnzip

\* Variant: the grouping is returned but not stored in db_file_paths.
group_by_year_unsaved(sort_by) ==
    /\ rpc \notin {"new", "ModuleNotFoundError"}
    /\ rpc' = IF sort_by \in SortModes THEN "grouped" ELSE "ValueError"
    /\ rsort' = IF sort_by \in SortModes THEN sort_by ELSE rsort
    /\ UNCHANGED <<rdb, rfiles, redits>>
    /\ GroupFrame

\* lines 86-92; the import of line 89 names the shared utility sort_files_by_year
group_by_year(sort_by) ==
    /\ rpc \notin {"new", "ModuleNotFoundError"}
    /\ IF sort_by \in SortModes
       THEN /\ rdb' = sort_files_by_year(alive, rfiles, sort_by)
            /\ rsort' = sort_by
            /\ rpc' = "grouped"
       ELSE /\ rpc' = "ValueError"
            /\ UNCHANGED <<rdb, rsort>>
    /\ UNCHANGED <<rfiles, redits>>
    /\ GroupFrame

\* lines 70-71
__post_init__ ==
    /\ rpc = "new"
    /\ \E outcome \in ImportOutcomes :
         IF outcome = "imported"
         THEN /\ rdb' = sort_files_by_year(alive, rfiles, "name")
              /\ rpc' = "constructed"
         ELSE /\ rdb' = rdb
              /\ rpc' = "ModuleNotFoundError"
    /\ rsort' = "name"
    /\ UNCHANGED <<rfiles, redits>>
    /\ GroupFrame

\* the dataclass is not frozen: a caller assigns or appends to files
SetFiles ==
    /\ rpc \notin {"new", "ModuleNotFoundError"}
    /\ redits < MaxEdits
    /\ \E fl \in SeqsUpTo(GroupPaths, MaxGroupFiles) :
         /\ fl # rfiles
         /\ rfiles' = fl
    /\ redits' = redits + 1
    /\ rpc' = "edited"
    /\ UNCHANGED <<rdb, rsort>>
    /\ GroupFrame

NextGroup ==
    \/ __post_init__
    \/ \E s \in SortModes \cup {"bogus"} : group_by_year(s)
    \/ SetFiles

SpecGroup == InitGroup /\ [][NextGroup]_vars

----------------------------------------------------------------------------
(* unzip_files.py: the batch, its pool of workers and the files they write *)

MaxItems == 2
MaxRuns == 2
NumWorkers == 2

GzName(c) == <<c, ".", "x", "m", "l", ".", "g", "z">>
XmlName(c) == <<c, ".", "x", "m", "l">>

SrcOk == Path(<<"d1">>, GzName("a"))
SrcMissing == Path(<<"d1">>, GzName("b"))
SrcCorrupt == Path(<<"d2">>, GzName("a"))
Sources == {SrcOk, SrcMissing, SrcCorrupt}

\* what gzip finds at a source path
SourceState(src) ==
    IF src = SrcOk THEN "gzip" ELSE IF src = SrcMissing THEN "missing" ELSE "corrupt"

\* the decompressed bytes of a source
Content(src) == IF src = SrcOk THEN "xml of d1/a" ELSE "xml"

OutDir == <<"out">>

\* an entry of source_directory: a str, or a tuple of three
StrItem(src) == [kind |-> "str", src |-> src, dst |-> src, ow |-> FALSE]
Triple(src, dst, ow) == [kind |-> "tuple", src |-> src, dst |-> dst, ow |-> ow]

Items ==
    {StrItem(x) : x \in Sources}
      \cup { Triple(SrcOk, Path(OutDir, XmlName("a")), FALSE),
             Triple(SrcCorrupt, Path(OutDir, XmlName("a")), TRUE),
             Triple(SrcMissing, Path(OutDir, XmlName("b")), FALSE),
             Triple(SrcOk, Path(<<"nodir">>, XmlName("a")), FALSE) }

DestDirs == {OutDir, <<"nodir">>, <<"d1", "unzipped">>, <<"d2", "unzipped">>}
DestPaths == {Path(d, XmlName(c)) : d \in DestDirs, c \in {"a", "b"}}

\* all(isinstance(item, tuple) and len(item) == 3 for item in source_directory)
AllTriples(items) == \A i \in 1..Len(items) : items[i].kind = "tuple"

\* Variant: the first entry alone decides that the list holds str.
FirstIsStr(items) == items # <<>> /\ items[1].kind = "str"

\* all(isinstance(item, str) for item in source_directory)
AllStr(items) == \A i \in 1..Len(items) : items[i].kind = "str"

\* the calls tried: str lists with every destination_directory and overwrite,
\* the other lists and a lone str with the defaults
UnzipInputs ==
    { [list |-> TRUE, items |-> l, destination_directory |-> d, overwrite |-> o] :
        l \in {x \in SeqsUpTo(Items, MaxItems) :
                 \A i \in 1..Len(x) : x[i].kind = "str"},
        d \in {None, Some(OutDir)}, o \in BOOLEAN }
      \cup { [list |-> b, items |-> l, destination_directory |-> None,
              overwrite |-> FALSE] :
               l \in {x \in SeqsUpTo(Items, MaxItems) :
                        \E i \in 1..Len(x) : x[i].kind # "str"},
               b \in {TRUE} }
      \cup { [list |-> FALSE, items |-> <<StrItem(SrcOk)>>,
              destination_directory |-> None, overwrite |-> FALSE] }

UnzipFrame == UNCHANGED <<findVars, yearVars, groupVars>>

Queued(n) == [i \in 1..n |-> [pc |-> "queued", res |-> None, sawExists |-> FALSE]]

InitUnzip ==
    /\ uinput \in UnzipInputs
    /\ upc = "start"
    /\ file_paths = <<>>
    /\ destination_path = None
    /\ task = <<>>
    /\ \E c \in {"absent", "old"} :
         dest = [d \in DestPaths |->
                   IF d = Path(OutDir, XmlName("a")) THEN c ELSE "absent"]
    /\ dirs = {OutDir}
    /\ opened = {}
    /\ wrote = {}
    /\ extracted_files = <<>>
    /\ returned = None
    /\ run = 1
    /\ destAtStart = dest
    /\ prevFull = FALSE
    /\ IdleFind /\ IdleYear /\ IdleGroup

\* lines 64-83: the work items of a list of str
FromStrList(items, destination_directory, overwrite) ==
    LET first_file == items[1].src
        default_dest_dir == Append(first_file.dir, "unzipped")
        dpath == IF destination_directory # None /\ Val(destination_directory) # <<>>
                 THEN Val(destination_directory)
                 ELSE default_dest_dir
    IN  [i \in 1..Len(items) |->
           Triple(items[i].src, Path(dpath, PathStem(items[i].src.name)), overwrite)]

\* lines 53-96: the input is normalized, or the call raises
Normalize ==
    /\ upc = "start"
    /\ IF ~uinput.list
       THEN /\ upc' = "TypeError"
            /\ UNCHANGED <<file_paths, destination_path, task, dirs>>
       ELSE IF AllTriples(uinput.items)
       THEN /\ file_paths' = uinput.items
            /\ IF uinput.items = <<>>
               THEN /\ upc' = "IndexError"
                    /\ UNCHANGED <<destination_path, task>>
               ELSE /\ destination_path' = Some(uinput.items[1].dst.dir)
                    /\ task' = Queued(Len(uinput.items))
                    /\ upc' = "pool"
            /\ UNCHANGED dirs
       ELSE IF AllStr(uinput.items)
       THEN LET fp == FromStrList(uinput.items, uinput.destination_directory,
                                  uinput.overwrite)
            IN  /\ file_paths' = fp
                /\ dirs' = dirs \cup {fp[1].dst.dir}
                /\ destination_path' = Some(fp[1].dst.dir)
                /\ task' = Queued(Len(fp))
                /\ upc' = "pool"
       ELSE /\ upc' = "ValueError"
            /\ UNCHANGED <<file_paths, destination_path, task, dirs>>
    /\ UNCHANGED <<uinput, dest, opened, wrote, extracted_files, returned, run,
                   destAtStart, prevFull>>
    /\ UnzipFrame

Running == {t \in 1..Len(task) : task[t].pc \notin {"queued", "done"}}

\* Variant: the overwrite flag is read the wrong way round.
SkipIfOverwrite(exists, overwrite) == exists /\ overwrite

\* line 24
ShouldSkip(exists, overwrite) == exists /\ ~overwrite

Finish(t, res, saw) ==
    /\ task' = [task EXCEPT ![t] = [pc |-> "done", res |-> res, sawExists |-> saw]]
    /\ extracted_files' = IF res # None THEN Append(extracted_files, Val(res))
                          ELSE extracted_files

\* a worker takes the next work item; lines 16-26
StartItem(t) ==
    /\ upc = "pool"
    /\ task[t].pc = "queued"
    /\ \A u \in 1..(t - 1) : task[u].pc # "queued"
    /\ Cardinality(Running) < NumWorkers
    /\ LET exists == dest[file_paths[t].dst] # "absent"
       IN  IF ShouldSkip(exists, file_paths[t].ow)
           THEN Finish(t, None, exists)
           ELSE /\ task' = [task EXCEPT ![t] = [pc |-> "open_src", res |-> None,
                                                sawExists |-> exists]]
                /\ UNCHANGED extracted_files
    /\ UNCHANGED <<uinput, upc, file_paths, destination_path, dest, dirs, opened, wrote,
                   returned, run, destAtStart, prevFull>>
    /\ UnzipFrame

\* line 28: gzip.open(source_p, "rb")
OpenSource(t) ==
    /\ upc = "pool"
    /\ task[t].pc = "open_src"
    /\ IF SourceState(file_paths[t].src) = "missing"
       THEN /\ Finish(t, None, task[t].sawExists)
            /\ UNCHANGED opened
       ELSE /\ task' = [task EXCEPT ![t].pc = "open_dst"]
            /\ opened' = opened \cup {t}
            /\ UNCHANGED extracted_files
    /\ UNCHANGED <<uinput, upc, file_paths, destination_path, dest, dirs, wrote,
                   returned, run, destAtStart, prevFull>>
    /\ UnzipFrame

\* line 28: open(dest_p, "wb") creates the file or empties it
OpenDest(t) ==
    /\ upc = "pool"
    /\ task[t].pc = "open_dst"
    /\ IF file_paths[t].dst.dir \notin dirs
       THEN /\ Finish(t, None, task[t].sawExists)
            /\ UNCHANGED <<dest, wrote>>
       ELSE /\ task' = [task EXCEPT ![t].pc = "copy"]
            /\ dest' = [dest EXCEPT ![file_paths[t].dst] = "empty"]
            /\ wrote' = wrote \cup {t}
            /\ UNCHANGED extracted_files
    /\ UNCHANGED <<uinput, upc, file_paths, destination_path, dirs, opened,
                   returned, run, destAtStart, prevFull>>
    /\ UnzipFrame

\* lines 29-37: shutil.copyfileobj, then the path is returned
Copy(t) ==
    /\ upc = "pool"
    /\ task[t].pc = "copy"
    /\ IF SourceState(file_paths[t].src) = "corrupt"
       THEN /\ Finish(t, None, task[t].sawExists)
            /\ UNCHANGED dest
       ELSE /\ Finish(t, Some(file_paths[t].dst), task[t].sawExists)
            /\ dest' = [dest EXCEPT ![file_paths[t].dst] = Content(file_paths[t].src)]
    /\ UNCHANGED <<uinput, upc, file_paths, destination_path, dirs, opened, wrote,
                   returned, run, destAtStart, prevFull>>
    /\ UnzipFrame

\* lines 99-112: every result has arrived
Return ==
    /\ upc = "pool"
    /\ \A t \in 1..Len(task) : task[t].pc = "done"
    /\ returned' = Some([dir |-> Val(destination_path), extracted |-> extracted_files])
    /\ upc' = "done"
    /\ UNCHANGED <<uinput, file_paths, destination_path, task, dest, dirs, opened, wrote,
                   extracted_files, run, destAtStart, prevFull>>
    /\ UnzipFrame

\* the caller runs the same batch again, with overwrite=False
Rerun ==
    /\ upc = "done"
    /\ run < MaxRuns
    /\ uinput' = [uinput EXCEPT
                    !.overwrite = FALSE,
                    !.items = [i \in 1..Len(uinput.items) |->
                                 [uinput.items[i] EXCEPT !.ow = FALSE]]]
    /\ upc' = "start"
    /\ file_paths' = <<>>
    /\ destination_path' = None
    /\ task' = <<>>
    /\ opened' = {}
    /\ wrote' = {}
    /\ extracted_files' = <<>>
    /\ returned' = None
    /\ run' = run + 1
    /\ destAtStart' = dest
    /\ prevFull' = (Len(Val(returned).extracted) = Len(uinput.items))
    /\ UNCHANGED <<dest, dirs>>
    /\ UnzipFrame

NextUnzip ==
    \/ Normalize
    \/ \E t \in 1..Len(task) : StartItem(t)
    \/ \E t \in 1..Len(task) : OpenSource(t)
    \/ \E t \in 1..Len(task) : OpenDest(t)
    \/ \E t \in 1..Len(task) : Copy(t)
    \/ Return
    \/ Rerun

SpecUnzip == InitUnzip /\ [][NextUnzip]_vars

----------------------------------------------------------------------------
(* Claims about find_files *)

Elems(seq) == {seq[i] : i \in 1..Len(seq)}

Count(x, seq) == Cardinality({i \in 1..Len(seq) : seq[i] = x})

\* C1: when find_files raises the ValueError for a sort_by outside
\* {name, mtime, size}, it has listed no directory, made no is_file check and
\* read no size or stat before.
C1_InvalidSortByBeforeEnumeration ==
    (pc = "ValueError" /\ args.sort_by \notin SortModes)
        => fsTouched \cap {"glob", "is_file", "stat"} = {}

\* C2: sorted by mtime or size, no entry whose metadata read failed stands
\* before an entry whose metadata was read, whatever reverse is.
C2_UnreadableSortLast ==
    (pc \in {"truncate", "construct", "done"} /\ args.sort_by \in {"mtime", "size"})
        => \A i, j \in 1..Len(filtered) :
             i < j => ~(sortKeys[i] = InfKey /\ sortKeys[j] # InfKey)

\* C4: every path of the result's files passes every active filter of the
\* arguments, in its resolved form too, so filtering the list again keeps it
\* whole (stated for the runs in which no file was removed meanwhile).
C4_ResultPassesFilters ==
    (pc = "done" /\ unlinks = 0)
        => LET files == Val(result).files
           IN  /\ \A i \in 1..Len(files) : _file_passes(alive, files[i], args)
               /\ SelectSeq(files, LAMBDA p : _file_passes(alive, p, args)) = files

\* C11: every FindFilesResult that find_files returns has total_matched equal
\* to the length of its files list, also when max_files has cut the list; a
\* result exists only once the call has returned.
C11_TotalMatchedIsLen ==
    /\ pc = "done" =>
          /\ result # None
          /\ Val(result).total_matched = Len(Val(result).files)
    /\ result # None => pc = "done"

\* a returned result whose list max_files has cut short
C11_Witness ==
    /\ pc = "done"
    /\ args.max_files = Some(2)
    /\ Len(candidates) > 2
    /\ Val(result).total_matched = 2
    /\ Len(Val(result).files) = 2

\* C12: a root that does not exist ends the call in FileNotFoundError, a root
\* that exists but is no directory in NotADirectoryError, and nothing else
\* does; either is raised before anything is listed, tested or filtered, and
\* no result is produced.
C12_RootErrorsFirst ==
    /\ pc = "FileNotFoundError" <=> (pc # "start" /\ ~RootExists(args.dir))
    /\ pc = "NotADirectoryError"
          <=> (pc # "start" /\ RootExists(args.dir) /\ ~RootIsDir(args.dir))
    /\ pc \in {"FileNotFoundError", "NotADirectoryError"} =>
          /\ fsTouched = {"exists"}
          /\ candidates = <<>>
          /\ filtered = <<>>
          /\ sortKeys = <<>>
          /\ result = None

\* the root is a regular file and the call has raised
C12_Witness ==
    /\ pc = "NotADirectoryError"
    /\ args.dir = RootFile
    /\ RootExists(args.dir)
    /\ result = None

\* the smaller of two numbers
Min(a, b) == IF a < b THEN a ELSE b

\* the list stands in the order of its keys under the reverse flag
InKeyOrder(keys, reverse) ==
    \A i, j \in 1..Len(keys) : i < j => ~Before(keys[j], keys[i], reverse)

\* the candidates that pass the filters, resolved
Matches ==
    LET passing == SelectSeq(candidates, LAMBDA p : _file_passes(alive, p, args))
    IN  [i \in 1..Len(passing) |-> Resolve(alive, passing[i])]

\* what the list holds when the truncation is about to run
C13_BeforeTruncation ==
    pc = "truncate" =>
        /\ Len(sortKeys) = Len(filtered)
        /\ InKeyOrder(sortKeys, args.reverse)
        /\ unlinks = 0 =>
              /\ sortKeys = KeysOf(alive, args.sort_by, filtered)
              /\ \A p \in Elems(Matches) \cup Elems(filtered) :
                    Count(p, filtered) = Count(p, Matches)

\* what the step of lines 187-188 does to the list
C13_TruncationStep ==
    (pc = "truncate" /\ pc' = "construct") =>
        LET m == args.max_files
        IN  IF m # None /\ Val(m) >= 0
            THEN /\ Len(filtered') = Min(Val(m), Len(filtered))
                 /\ \A i \in 1..Len(filtered') : filtered'[i] = filtered[i]
                 /\ Val(m) = 0 => filtered' = <<>>
            ELSE filtered' = filtered

\* the list as truncated is the one returned
C13_Returned ==
    /\ (pc = "construct" /\ pc' = "done") => filtered' = filtered
    /\ pc' = "done" => Val(result').files = filtered'

\* C13: with max_files set and not negative, the files returned are the first
\* max_files entries of the whole filtered list as sorted by the requested key
\* and reverse flag, min(max_files, matches) of them, none for max_files = 0;
\* with max_files absent or negative no entry is removed.
C13_FirstMaxFiles ==
    /\ []C13_BeforeTruncation
    /\ [][C13_TruncationStep /\ C13_Returned]_vars
    /\ [](pc = "done" /\ unlinks = 0 =>
            LET m == args.max_files
                sorted == SortPaths(alive, Matches, args.sort_by, args.reverse)
                files == Val(result).files
            IN  IF m # None /\ Val(m) >= 0
                THEN files = SubSeq(sorted, 1, Min(Val(m), Len(sorted)))
                ELSE files = sorted)

\* of three matches sorted by size, largest first, the two largest are returned
C13_Witness ==
    /\ pc = "done"
    /\ unlinks = 0
    /\ args.max_files = Some(2)
    /\ args.sort_by = "size"
    /\ args.reverse
    /\ Len(Matches) = 3
    /\ Val(result).files = <<FC, FB>>

----------------------------------------------------------------------------
(* Claims about the year of a file name *)

\* pattern k matches name and the number it captures is a year in range
Yields(k, name) ==
    LET m == re_search(YearPatterns[k], name)
    IN  m # None /\ InYearRange(ParseInt(Val(m)))

\* C3: the year returned is the one captured by the first of the three
\* patterns, in their order, that matches with a number in [1900, 2099]; a
\* pattern matching with a number out of range is passed over; None is
\* returned only when no pattern yields a year; pubmed_sorted_1998 with a
\* stray 2020 gives 1998.
C3_YearByPriority ==
    ypc = "out" =>
        /\ IF \E k \in 1..3 : Yields(k, yname)
           THEN LET k == CHOOSE i \in 1..3 :
                           Yields(i, yname) /\ \A j \in 1..(i - 1) : ~Yields(j, yname)
                IN  yresult = Some(ParseInt(Val(re_search(YearPatterns[k], yname))))
           ELSE yresult = None
        /\ (re_search(YearPatterns[1], yname) = Some(<<"1", "9", "9", "8">>)
              => yresult = Some(1998))

\* a name in which pubmed_<4 digits> matches out of range and a later pattern
\* gives the year
C3_Witness ==
    /\ ypc = "out"
    /\ re_search(YearPatterns[2], yname) # None
    /\ ~Yields(2, yname)
    /\ ~Yields(1, yname)
    /\ yresult # None

----------------------------------------------------------------------------
(* Claims about the grouping by year *)

RECURSIVE SumLen(_)
SumLen(b) == IF b = <<>> THEN 0 ELSE Len(Head(b).files) + SumLen(Tail(b))

\* C7 as stated: once constructed, db_file_paths is the grouping of the
\* current files, also after files was changed.
C7_NeverStale ==
    rpc \in {"constructed", "grouped", "edited"}
        => rdb = sort_files_by_year(alive, rfiles, rsort)

\* C7 amended: right after construction and right after a group_by_year call
\* db_file_paths is the grouping of the current files (by name at
\* construction, by the call's sort_by after a call); a change of files
\* leaves db_file_paths as it was.
C7_FreshAfterGrouping ==
    /\ rpc \in {"constructed", "grouped"}
         => rdb = sort_files_by_year(alive, rfiles, rsort)
    /\ rpc = "constructed" => rsort = "name"

C7_Witness ==
    /\ rpc = "grouped"
    /\ redits > 0
    /\ rdb # <<>>
    /\ rsort = "size"

\* C8: in the grouping of a file list, a file whose name gives a year is in
\* the bucket of that year and in no other, a file whose name gives none is
\* in no bucket, so the bucket sizes sum to at most the number of files; the
\* keys are integers in [1900, 2099], strictly ascending, and no bucket is
\* empty.
C8_Buckets ==
    rpc \in {"constructed", "grouped"} =>
        /\ \A i \in 1..Len(rdb) :
             /\ rdb[i].year \in MinYear..MaxYear
             /\ rdb[i].files # <<>>
             /\ Elems(rdb[i].files) \subseteq Elems(rfiles)
        /\ \A i, j \in 1..Len(rdb) : i < j => rdb[i].year < rdb[j].year
        /\ \A f \in Elems(rfiles) :
             LET y == _extract_year_from_filename(f.name)
             IN  /\ \A i \in 1..Len(rdb) :
                      Count(f, rdb[i].files) =
                        IF y # None /\ rdb[i].year = Val(y) THEN Count(f, rfiles) ELSE 0
                 /\ y # None => \E i \in 1..Len(rdb) : rdb[i].year = Val(y)
        /\ SumLen(rdb) <= Len(rfiles)

\* two files, one with a year and one without: one bucket, one file dropped
C8_Witness ==
    /\ rpc = "grouped"
    /\ Len(rfiles) = 2
    /\ Len(rdb) = 1
    /\ SumLen(rdb) = 1

----------------------------------------------------------------------------
(* Claims about the decompression batch *)

UnzipErrors == {"TypeError", "ValueError", "IndexError"}

\* C5: a destination is in the extractedPaths returned exactly when the batch
\* created or modified that file; an item with a missing or corrupt source
\* gives no path and leaves no written destination.
C5_ExtractedIffWritten ==
    upc = "done"
        => /\ Elems(Val(returned).extracted) = {file_paths[t].dst : t \in wrote}
           /\ \A t \in 1..Len(file_paths) :
                SourceState(file_paths[t].src) # "gzip"
                    => task[t].res = None /\ t \notin wrote

\* C6: a work item that found its destination present with overwrite false
\* returns None, opens no source and writes nothing; and a batch run again
\* with overwrite=False after a run that extracted every item returns no path
\* and leaves every destination as it was.
C6_SkipExisting ==
    /\ \A t \in 1..Len(task) :
         (task[t].pc # "queued" /\ task[t].sawExists /\ ~file_paths[t].ow)
             => /\ task[t].pc = "done"
                /\ task[t].res = None
                /\ t \notin opened
                /\ t \notin wrote
    /\ (run > 1 /\ prevFull)
         => /\ dest = destAtStart
            /\ opened = {}
            /\ wrote = {}
            /\ extracted_files = <<>>
            /\ upc \notin UnzipErrors
            /\ upc = "done" => Val(returned).extracted = <<>>

\* the second run of a batch of two, after a first run that extracted both
C6_Witness ==
    /\ run = 2
    /\ prevFull
    /\ upc = "done"
    /\ Len(file_paths) = 2
    /\ \A t \in 1..2 : task[t].sawExists

\* C9: a list of triples only, or of str only, of any length, is normalized
\* without raising, and the directory returned is the parent of the first
\* work item's destination.
C9_UniformListAccepted ==
    (uinput.list /\ (AllTriples(uinput.items) \/ AllStr(uinput.items)))
        => /\ upc \notin UnzipErrors
           /\ upc = "done" => Val(returned).dir = file_paths[1].dst.dir

Mixed(items) ==
    /\ \E i \in 1..Len(items) : items[i].kind = "str"
    /\ \E i \in 1..Len(items) : items[i].kind = "tuple"

\* C10: a list mixing str and triples, or an input that is no list, raises
\* (ValueError, TypeError) with no directory created, no worker started and
\* no work item processed.
C10_MixedRejected ==
    (~uinput.list \/ Mixed(uinput.items))
        => /\ upc \in {"start", IF uinput.list THEN "ValueError" ELSE "TypeError"}
           /\ dirs = {OutDir}
           /\ file_paths = <<>>
           /\ task = <<>>
           /\ opened = {}
           /\ wrote = {}
           /\ dest = destAtStart
           /\ returned = None

C10_Witness ==
    /\ upc = "ValueError"
    /\ Mixed(uinput.items)
    /\ uinput.items[1].kind = "str"

====
